---------------------------- MODULE Spec2Model ----------------------------
(***************************************************************************)
(* Model of the cluster pipeline of pw-redis.  The repository holds two    *)
(* variants of the ExtendedClusterRedis class:                             *)
(*   "cache"    src/src/clusterPipeline.ts: its own slot-range cache       *)
(*              (nodeSlotRanges), refreshed once when the first attempt    *)
(*              fails with an error whose message includes "slots";        *)
(*   "redirect" src/unnamed/part_002: routes with the client's slot table  *)
(*              (this.slots) and retries redirected commands one by one.   *)
(* The collaborator (ioredis) is the environment: it answers a batch, a    *)
(* single command or the shard query, or fails it.                         *)
(***************************************************************************)
EXTENDS Integers, Sequences, FiniteSets, TLC

(***************************************************************************)
(* Bounds of the model.                                                    *)
(***************************************************************************)
MaxCmds == 2
MaxTagLen == 2
MaxSuffixLen == 1
MaxKeyLen == 3

(***************************************************************************)
(* State.                                                                  *)
(***************************************************************************)
VARIABLES
  variant,         \* which of the two classes the client is
  shards,          \* what CLUSTER SHARDS answers (cache variant)
  slots,           \* this.slots of the client (redirect variant)
  nodeSlotRanges,  \* this.nodeSlotRanges (cache variant)
  commands,        \* the argument of the clusterPipeline call
  inv,             \* the invocation
  other,           \* a second call on the same client: its argument and invocation
  refreshLog       \* history: the answer and the table of every refresh so far

vars == <<variant, shards, slots, nodeSlotRanges, commands, inv, other, refreshLog>>

(***************************************************************************)
(* Bytes of the keys used as inputs.                                       *)
(***************************************************************************)
LBrace == 123
RBrace == 125
SlotSpace == 16384
Polynomial == 4129
CrcMask == 65535
CrcTopBit == 32768

\* command[1] of a command: absent (undefined) or a string of bytes
NoKey == [isNull |-> TRUE, str |-> <<>>]
Key(bytes) == [isNull |-> FALSE, str |-> bytes]

\* line terminators ('.' of a regular expression does not match them) and
\* the white space String.prototype.trim removes, among single bytes
LineTerminators == {10, 13}
WhiteSpace == {9, 10, 11, 12, 13, 32}

RECURSIVE BitXor(_, _)
BitXor(a, b) ==
  IF a = 0 THEN b
  ELSE IF b = 0 THEN a
  ELSE (((a % 2) + (b % 2)) % 2) + (2 * BitXor(a \div 2, b \div 2))

\* one turn of the inner loop: lines 93..98
CrcShift(crc) ==
  LET shifted == IF (crc \div CrcTopBit) % 2 = 1
                 THEN BitXor(crc * 2, Polynomial)
                 ELSE crc * 2
  IN shifted % (CrcMask + 1)

RECURSIVE CrcBits(_, _)
CrcBits(crc, i) == IF i = 0 THEN crc ELSE CrcBits(CrcShift(crc), i - 1)

\* the outer loop, from byte k on; crc is a 16-bit value at every turn
RECURSIVE CrcFrom(_, _, _)
CrcFrom(crc, str, k) ==
  IF crc \in 0..CrcMask /\ k <= Len(str)
  THEN CrcFrom(CrcBits(BitXor(crc, str[k] * 256), 8), str, k + 1)
  ELSE crc

hashCRC16(str) == CrcFrom(0, str, 1)

\* key.match(/\{(.+?)\}/): the leftmost '{' that is followed, after at least
\* one character and no line terminator, by a '}'; the group ends at the
\* first such '}'.  <<>> when there is no match.
TagEnds(str, p) ==
  {q \in (p + 2)..Len(str) :
     /\ str[q] = RBrace
     /\ \A k \in (p + 1)..(q - 1) : str[k] \notin LineTerminators}

TagStarts(str) == {p \in 1..Len(str) : str[p] = LBrace /\ TagEnds(str, p) # {}}

Min(S) == CHOOSE x \in S : \A y \in S : x <= y

hashTagMatch(str) ==
  IF TagStarts(str) = {} THEN <<>>
  ELSE LET p == Min(TagStarts(str))
           q == Min(TagEnds(str, p))
       IN <<SubSeq(str, p + 1, q - 1)>>

Trimmed(str) ==
  LET keep == {k \in 1..Len(str) : str[k] \notin WhiteSpace}
  IN IF keep = {} THEN <<>>
     ELSE SubSeq(str, Min(keep), CHOOSE x \in keep : \A y \in keep : y <= x)

\* a slot function without the test of line 78
calculateSlotNoTrim(key) ==
  IF key.isNull THEN 0
  ELSE LET m == hashTagMatch(key.str)
           k == IF m # <<>> THEN m[1] ELSE key.str
       IN hashCRC16(k) % SlotSpace

calculateSlot(key) ==
  IF key.isNull THEN 0
  ELSE LET m == hashTagMatch(key.str)
           k == IF m # <<>> THEN m[1] ELSE key.str
       IN IF Len(Trimmed(k)) = 0 THEN 0
          ELSE hashCRC16(k) % SlotSpace

(***************************************************************************)
(* Commands, and what the collaborator knows of their names.  A command is *)
(* (name, ...args); args[1] is command[1], the routing key.                *)
(***************************************************************************)
Cmd(name, args) == [name |-> name, args |-> args]
KeyOf(command) == IF Len(command.args) >= 1 THEN Key(command.args[1]) ELSE NoKey

\* typeof pipeline[cmd[0]] === 'function' and typeof this[cmdName] === 'function':
\* the names that are functions of a pipeline object and of the client.
\* "pipeonly" stands for a method the pipeline class has and the client has
\* not, "bogus" for a name that is a function of neither.
PipelineFunctions == {"get", "set", "pipeonly"}
ClientFunctions == {"get", "set"}

CommandPool ==
  { Cmd("get", << <<97>> >>),                  \* get a        slot 15495
    Cmd("set", << <<99>>, <<118>> >>),         \* set c v      slot 7365
    Cmd("get", << <<123, 97, 125, 99>> >>),    \* get {a}c     slot 15495
    Cmd("get", << >>),                         \* no key       slot 0
    Cmd("pipeonly", << <<99>> >>),             \* a function of the pipeline only
    Cmd("bogus", << <<97>> >>) }               \* no function at all

RECURSIVE SeqsUpTo(_, _)
SeqsUpTo(S, n) ==
  IF n = 0 THEN {<<>>}
  ELSE LET shorter == SeqsUpTo(S, n - 1)
       IN shorter \cup {Append(q, x) : q \in {r \in shorter : Len(r) = n - 1}, x \in S}

CommandLists == SeqsUpTo(CommandPool, MaxCmds)

(***************************************************************************)
(* Keys for the slot function on its own: every string of bytes up to      *)
(* MaxKeyLen over '{', '}', 'a', line feed and space, and the keys         *)
(* "{tag}suffix" with the tag over '{', '}', 'a' and line feed and the     *)
(* suffix over 'a' and '}'.                                                *)
(***************************************************************************)
KeyBytes == {LBrace, RBrace, 97, 10, 32}
TagBytes == {LBrace, RBrace, 97, 10}
SuffixBytes == {97, RBrace}

KeyStrings == SeqsUpTo(KeyBytes, MaxKeyLen)
Tags == SeqsUpTo(TagBytes, MaxTagLen)
Suffixes == SeqsUpTo(SuffixBytes, MaxSuffixLen)

TaggedKey(tag, suffix) == <<LBrace>> \o tag \o <<RBrace>> \o suffix

\* the command lists whose routing is examined: one command with any key
\* or none, and two commands whose keys are "{tag}x" and "{tag}y"
SlotInputs ==
  {<<Cmd("get", <<k>>)>> : k \in KeyStrings}
    \cup {<<Cmd("get", <<>>)>>}
    \cup {<<Cmd("get", <<TaggedKey(tag, x)>>), Cmd("get", <<TaggedKey(tag, y)>>)>> :
            tag \in Tags, x \in Suffixes, y \in Suffixes}

(***************************************************************************)
(* Errors.  message.includes("slots") is decided on the message text.      *)
(***************************************************************************)
StaleMessage == "All keys in the pipeline should belong to the same slots allocation group"
ClosedMessage == "Connection is closed."
NotFunctionMessage == "pipeline[cmd[0]] is not a function"
UndefinedSlotMessage == "Cannot read properties of undefined (reading '0')"
ShardsMessage == "ERR unknown subcommand 'SHARDS'"

IncludesSlots(message) == message \in {StaleMessage}

Err(name, message, origin, n) ==
  [name |-> name, message |-> message, origin |-> origin, attempt |-> n]
NoError == Err("none", "", "none", 0)

\* what pipeline.exec() may reject with
BatchFailures == {StaleMessage, ClosedMessage}

(***************************************************************************)
(* The topology as the store reports it (CLUSTER SHARDS) and the client's  *)
(* own slot table this.slots.                                              *)
(***************************************************************************)
Shard(slotRanges, id) == <<"slots", slotRanges, "nodes", << <<"id", id>> >> >>

Topologies ==
  { << Shard(<<0, 5460, 10923, 16383>>, "n1"), Shard(<<5461, 10922>>, "n2") >>,
    << Shard(<<0, 5460>>, "n1") >> }

Range(node, startSlot, endSlot) ==
  [node |-> node, startSlot |-> startSlot, endSlot |-> endSlot]

RECURSIVE ShardRanges(_, _, _)
ShardRanges(slotRanges, node, i) ==
  IF i > Len(slotRanges) THEN <<>>
  ELSE <<Range(node[2], slotRanges[i], slotRanges[i + 1])>>
         \o ShardRanges(slotRanges, node, i + 2)

RECURSIVE FlatMapShards(_, _)
FlatMapShards(clusterSlots, k) ==
  IF k > Len(clusterSlots) THEN <<>>
  ELSE ShardRanges(clusterSlots[k][2], clusterSlots[k][4][1], 1)
         \o FlatMapShards(clusterSlots, k + 1)

\* the value updateRedisClusterSlots assigns to this.nodeSlotRanges
ParseShards(clusterSlots) == FlatMapShards(clusterSlots, 1)

\* a refresh that adds the parsed ranges to the table it finds
updateAppend(cache, clusterSlots) == cache \o ParseShards(clusterSlots)

\* a refresh that installs only the ranges the table did not hold yet
updateNewOnly(cache, clusterSlots) ==
  LET Fresh(range) == \A k \in 1..Len(cache) : cache[k] # range
  IN SelectSeq(ParseShards(clusterSlots), Fresh)

\* updateRedisClusterSlots once the shard query has answered: the table
\* this.nodeSlotRanges holds afterwards, given the one it held before
updateRedisClusterSlots(cache, clusterSlots) == ParseShards(clusterSlots)

NullNode == [isNull |-> TRUE, id |-> ""]
Node(id) == [isNull |-> FALSE, id |-> id]

findNodeForSlot(ranges, slot) ==
  LET hits == {k \in 1..Len(ranges) :
                 slot >= ranges[k].startSlot /\ slot <= ranges[k].endSlot}
  IN IF hits = {} THEN NullNode ELSE Node(ranges[Min(hits)].node)

\* pipelinesByNode[node]: the property key of a node value
PropertyKey(node) == IF node.isNull THEN "null" ELSE node.id

\* this.slots of the client: slot -> list of node keys, here by ranges
SlotTables ==
  { << [startSlot |-> 0, endSlot |-> 8191, nodes |-> <<"h1:7000", "h3:7000">>],
       [startSlot |-> 8192, endSlot |-> 16383, nodes |-> <<"h2:7000">>] >>,
    << [startSlot |-> 0, endSlot |-> 8191, nodes |-> <<"h1:7000">>] >>,
    << >> }

\* this.slots[slot]: undefined when the slot has no entry
SlotsAt(table, slot) ==
  LET hits == {k \in 1..Len(table) :
                 slot >= table[k].startSlot /\ slot <= table[k].endSlot}
  IN IF hits = {} THEN [defined |-> FALSE, nodes |-> <<>>]
     ELSE [defined |-> TRUE, nodes |-> table[Min(hits)].nodes]

(***************************************************************************)
(* The slot function of the redirect variant is the cluster-key-slot       *)
(* library: CRC16 of the key, or of the text between the first '{' and the *)
(* first '}' after it when that text is not empty, masked to 14 bits.  It  *)
(* reads the length of its argument, so an absent key makes it throw.      *)
(***************************************************************************)
clusterKeySlot(key) ==
  IF key.isNull THEN [threw |-> TRUE, slot |-> 0]
  ELSE LET str == key.str
           opens == {p \in 1..Len(str) : str[p] = LBrace}
           closes == IF opens = {} THEN {}
                     ELSE {q \in (Min(opens) + 1)..Len(str) : str[q] = RBrace}
           tagged == opens # {} /\ closes # {} /\ Min(closes) > Min(opens) + 1
           k == IF tagged THEN SubSeq(str, Min(opens) + 1, Min(closes) - 1) ELSE str
       IN [threw |-> FALSE, slot |-> hashCRC16(k) % SlotSpace]

(***************************************************************************)
(* Grouping: the loop "Group commands by node".  pipelinesByNode is kept   *)
(* as the sequence of its entries in insertion order, the order            *)
(* Object.keys gives for keys that are not array indices.                  *)
(***************************************************************************)
Batch(node, cmds, indices) ==
  [node |-> node, commands |-> cmds, originalIndices |-> indices]

\* a grouping that restarts a node's batch instead of appending to it
PushCommandOverwrite(pipelinesByNode, node, command, i) ==
  LET at == {k \in 1..Len(pipelinesByNode) : pipelinesByNode[k].node = node}
  IN IF at = {}
     THEN Append(pipelinesByNode, Batch(node, <<command>>, <<i>>))
     ELSE LET k == CHOOSE x \in at : TRUE
          IN [pipelinesByNode EXCEPT
                ![k].commands = <<command>>,
                ![k].originalIndices = <<i>>]

\* a second execution that leaves out the commands the first attempt has
\* an answer for
PushCommandSkipAnswered(pipelinesByNode, node, command, i) ==
  LET at == {k \in 1..Len(pipelinesByNode) : pipelinesByNode[k].node = node}
      answered == /\ inv.pc = "refresh"
                  /\ i < Len(inv.att[1].raw)
                  /\ inv.att[1].raw[i + 1].src = "batch"
  IN IF answered THEN pipelinesByNode
     ELSE IF at = {}
     THEN Append(pipelinesByNode, Batch(node, <<command>>, <<i>>))
     ELSE LET k == CHOOSE x \in at : TRUE
          IN [pipelinesByNode EXCEPT
                ![k].commands = Append(@, command),
                ![k].originalIndices = Append(@, i)]

\* a grouping that puts a command in front of its node's batch
PushCommandPrepend(pipelinesByNode, node, command, i) ==
  LET at == {k \in 1..Len(pipelinesByNode) : pipelinesByNode[k].node = node}
  IN IF at = {}
     THEN Append(pipelinesByNode, Batch(node, <<command>>, <<i>>))
     ELSE LET k == CHOOSE x \in at : TRUE
          IN [pipelinesByNode EXCEPT
                ![k].commands = <<command>> \o @,
                ![k].originalIndices = <<i>> \o @]

\* lines 44..48 (88..92): one iteration, for command i (0-based) and its node key
PushCommand(pipelinesByNode, node, command, i) ==
  LET at == {k \in 1..Len(pipelinesByNode) : pipelinesByNode[k].node = node}
  IN IF at = {}
     THEN Append(pipelinesByNode, Batch(node, <<command>>, <<i>>))
     ELSE LET k == CHOOSE x \in at : TRUE
          IN [pipelinesByNode EXCEPT
                ![k].commands = Append(@, command),
                ![k].originalIndices = Append(@, i)]

\* Both slot functions are pure: their values on the keys of the pool are
\* computed once and looked up afterwards.
PoolKeys ==
  {KeyOf(c) : c \in CommandPool}
    \cup UNION {{KeyOf(cmds[k]) : k \in 1..Len(cmds)} : cmds \in SlotInputs}
SlotMemo == [k \in PoolKeys |-> <<k, calculateSlot(k), clusterKeySlot(k)>>]
Memo(key) == SlotMemo[key]

\* the node key command i is routed to: [threw, node]
RouteCache(ranges, command) ==
  [threw |-> FALSE,
   node |-> PropertyKey(findNodeForSlot(ranges, Memo(KeyOf(command))[2]))]

RouteRedirect(table, command) ==
  LET s == Memo(KeyOf(command))[3]
      entry == SlotsAt(table, s.slot)
  IN IF s.threw \/ ~entry.defined THEN [threw |-> TRUE, node |-> ""]
     ELSE IF Len(entry.nodes) = 0 THEN [threw |-> FALSE, node |-> "undefined"]
     ELSE [threw |-> FALSE, node |-> entry.nodes[1]]

Route(v, ranges, table, command) ==
  IF v = "cache" THEN RouteCache(ranges, command) ELSE RouteRedirect(table, command)

RECURSIVE GroupFrom(_, _, _, _, _, _)
GroupFrom(v, ranges, table, cmds, i, pipelinesByNode) ==
  IF i >= Len(cmds) THEN [threw |-> FALSE, pipelinesByNode |-> pipelinesByNode]
  ELSE LET r == Route(v, ranges, table, cmds[i + 1])
       IN IF r.threw THEN [threw |-> TRUE, pipelinesByNode |-> pipelinesByNode]
          ELSE GroupFrom(v, ranges, table, cmds, i + 1,
                         PushCommand(pipelinesByNode, r.node, cmds[i + 1], i))

GroupCommands(v, ranges, table, cmds) == GroupFrom(v, ranges, table, cmds, 0, <<>>)

(***************************************************************************)
(* Result arrays.  A JavaScript array with holes: writing past the end     *)
(* extends it.  Indices are 0-based as in the source.                      *)
(***************************************************************************)
NullErr == [kind |-> "null", command |-> FALSE]
Hole == [src |-> "hole", e |-> NullErr, cmd |-> Cmd("", <<>>), att |-> 0]

RECURSIVE Holes(_)
Holes(n) == IF n = 0 THEN <<>> ELSE Append(Holes(n - 1), Hole)

ArraySet(arr, i, value) ==
  IF i < Len(arr) THEN [arr EXCEPT ![i + 1] = value]
  ELSE arr \o Holes(i - Len(arr)) \o <<value>>

\* the raw result of one command of a batch, by the kind of reply: a value,
\* an error reply of the store (the client attaches the failed command to
\* it as its property "command"), an error without that property, and a
\* MOVED reply.  The cache variant stores every kind alike.
ReplyKinds(v) ==
  IF v = "cache" THEN {"ok", "moved"}
  ELSE {"ok", "wrongtype", "wrongtypeBare", "moved"}

ReplyError(kind) ==
  CASE kind = "ok" -> NullErr
    [] kind = "wrongtype" -> [kind |-> "WRONGTYPE", command |-> TRUE]
    [] kind = "wrongtypeBare" -> [kind |-> "WRONGTYPE", command |-> FALSE]
    [] kind = "moved" -> [kind |-> "MOVED", command |-> TRUE]

RawResult(kind, command, n) ==
  [src |-> "batch", e |-> ReplyError(kind), cmd |-> command, att |-> n]

\* Array.isArray(result) && result[0] && typeof result[0] === 'object'
\*   && 'command' in result[0]
isRedirectionResponse(result) ==
  /\ result.src # "hole"
  /\ result.e.kind # "null"
  /\ result.e.command

(***************************************************************************)
(* One execution attempt (one call of executePipelineForCluster): the      *)
(* per-node tasks, the attempt's own results array and redirect list, and  *)
(* the state of Promise.all over the tasks.  Two histories are kept with   *)
(* it: writes counts the assignments results[index] = ... made so far, per *)
(* index, and raw keeps the raw result the batch delivered for each index. *)
(***************************************************************************)
RECURSIVE Zeros(_)
Zeros(n) == IF n = 0 THEN <<>> ELSE Append(Zeros(n - 1), 0)

NoAttempt ==
  [tasks |-> <<>>, results |-> <<>>, redirectedCommands |-> <<>>,
   join |-> "none", error |-> NoError, writes |-> <<>>, raw |-> <<>>,
   grouped |-> FALSE]

\* lines 55..57 (102..108) up to the await: adding a command whose name is
\* no function of the pipeline throws, and the task is rejected at once
StartTask(batch) ==
  [node |-> batch.node, commands |-> batch.commands,
   originalIndices |-> batch.originalIndices,
   status |-> IF \E k \in 1..Len(batch.commands) :
                   batch.commands[k].name \notin PipelineFunctions
              THEN "rejected" ELSE "inflight"]

\* an executor that goes on with the array of the client's other call
NewResultsShared(v, cmds) == other.inv.att[1].results

\* const results = [] (cache variant); new Array(commands.length) (redirect)
NewResults(v, cmds) == IF v = "cache" THEN <<>> ELSE Holes(Len(cmds))

\* executePipelineForCluster up to "await Promise.all(promises)"
executePipelineForCluster(v, ranges, table, cmds, n) ==
  LET g == GroupCommands(v, ranges, table, cmds)
      tasks == [k \in 1..Len(g.pipelinesByNode) |-> StartTask(g.pipelinesByNode[k])]
      failed == \E k \in 1..Len(tasks) : tasks[k].status = "rejected"
  IN IF g.threw
     THEN [NoAttempt EXCEPT !.join = "rejected",
                            !.error = Err("TypeError", UndefinedSlotMessage, "group", n)]
     ELSE [tasks |-> tasks,
           results |-> NewResults(v, cmds),
           redirectedCommands |-> <<>>,
           join |-> IF failed THEN "rejected"
                    ELSE IF Len(tasks) = 0 THEN "resolved" ELSE "pending",
           error |-> IF failed THEN Err("TypeError", NotFunctionMessage, "batch", n)
                     ELSE NoError,
           writes |-> Zeros(Len(cmds)),
           raw |-> Holes(Len(cmds)),
           grouped |-> TRUE]

\* results[index] = value, counted
WriteResult(a, index, value) ==
  [a EXCEPT !.results = ArraySet(@, index, value),
            !.writes = [@ EXCEPT ![index + 1] = @ + 1]]

\* an assembler that takes the position in the batch for the position in the input
OriginalIndexLocal(task, localIndex) == localIndex

\* const originalIndex = originalIndices[localIndex]
OriginalIndex(task, localIndex) == task.originalIndices[localIndex + 1]

\* an executor that stores a redirect like any other result and queues nothing
HandleResultNoQueue(v, a, task, localIndex, result) ==
  WriteResult(a, OriginalIndex(task, localIndex), result)

\* an executor that queues a redirect and stores it as well
HandleResultBoth(v, a, task, localIndex, result) ==
  LET stored == WriteResult(a, OriginalIndex(task, localIndex), result)
  IN IF v = "redirect" /\ isRedirectionResponse(result)
     THEN [stored EXCEPT !.redirectedCommands =
             Append(@, [command |-> task.commands[localIndex + 1],
                        index |-> OriginalIndex(task, localIndex)])]
     ELSE stored

\* an executor that queues every command for a retry, redirected or not
HandleResultQueueAll(v, a, task, localIndex, result) ==
  LET stored == IF v = "redirect" /\ isRedirectionResponse(result) THEN a
                ELSE WriteResult(a, OriginalIndex(task, localIndex), result)
  IN IF v = "redirect"
     THEN [stored EXCEPT !.redirectedCommands =
             Append(@, [command |-> task.commands[localIndex + 1],
                        index |-> OriginalIndex(task, localIndex)])]
     ELSE stored

\* the body of nodeResult.forEach: lines 59..60 (112..123)
HandleResult(v, a, task, localIndex, result) ==
  IF v = "redirect" /\ isRedirectionResponse(result)
  THEN [a EXCEPT !.redirectedCommands =
          Append(@, [command |-> task.commands[localIndex + 1],
                     index |-> OriginalIndex(task, localIndex)])]
  ELSE WriteResult(a, OriginalIndex(task, localIndex), result)

Delivered(a, index, result) == [a EXCEPT !.raw[index + 1] = result]

RECURSIVE ForEachResult(_, _, _, _, _)
ForEachResult(v, a, task, nodeResult, localIndex) ==
  IF localIndex >= Len(nodeResult) THEN a
  ELSE ForEachResult(
         v,
         HandleResult(v, Delivered(a, task.originalIndices[localIndex + 1],
                                   nodeResult[localIndex + 1]),
                      task, localIndex, nodeResult[localIndex + 1]),
         task, nodeResult, localIndex + 1)

(***************************************************************************)
(* One invocation of clusterPipeline.                                      *)
(*   pc: "idle" | "exec" (awaiting the batches of the current attempt) |   *)
(*       "refresh" (awaiting updateRedisClusterSlots) | "retry" (awaiting  *)
(*       the single-command retries) | "returned" | "thrown"               *)
(***************************************************************************)
Idle ==
  [pc |-> "idle", attempt |-> 0, att |-> <<NoAttempt, NoAttempt>>,
   retries |-> <<>>, out |-> <<>>, thrown |-> NoError, refreshes |-> 0]

RetryValue(command, n) == [src |-> "retry", e |-> NullErr, cmd |-> command, att |-> n]
RetryError(kind, hasCommand, command, n) ==
  [src |-> "retry", e |-> [kind |-> kind, command |-> hasCommand],
   cmd |-> command, att |-> n]

\* retryRedirectedCommands up to "await Promise.all(retryPromises)": a name
\* that is a function of the client is called, any other is answered at once
StartRetry(rc) ==
  [command |-> rc.command, index |-> rc.index,
   status |-> IF rc.command.name \in ClientFunctions THEN "inflight" ELSE "invalid"]

RECURSIVE InvalidCommands(_, _, _)
InvalidCommands(a, retries, k) ==
  IF k > Len(retries) THEN a
  ELSE InvalidCommands(
         IF retries[k].status = "invalid"
         THEN WriteResult(a, retries[k].index,
                          RetryError("Invalid command", FALSE, retries[k].command, 1))
         ELSE a,
         retries, k + 1)

retryRedirectedCommands(i) ==
  LET a == i.att[1]
      retries == [k \in 1..Len(a.redirectedCommands) |-> StartRetry(a.redirectedCommands[k])]
      written == InvalidCommands(a, retries, 1)
      pending == \E k \in 1..Len(retries) : retries[k].status = "inflight"
  IN IF pending
     THEN [i EXCEPT !.pc = "retry", !.retries = retries, !.att[1] = written]
     ELSE [i EXCEPT !.pc = "returned", !.retries = retries, !.att[1] = written,
                    !.out = written.results]

\* results[index] = [null, retryResult]
RetryResolved(i, r) ==
  [i EXCEPT !.att[1] = WriteResult(@, i.retries[r].index,
                                   RetryValue(i.retries[r].command, 1)),
            !.retries[r].status = "resolved"]

\* a retry without its try/catch: the error leaves the retry stage
CatchRetryRethrow(i, r) ==
  [i EXCEPT !.pc = "thrown",
            !.thrown = Err("ReplyError", "WRONGTYPE", "retry", 1),
            !.retries[r].status = "rejected"]

\* a catch that stores the error and issues the call once more
CatchRetryAgain(i, r) ==
  [i EXCEPT !.att[1] = WriteResult(@, i.retries[r].index,
                                   RetryError("WRONGTYPE", TRUE, i.retries[r].command, 1)),
            !.retries[r].status = "inflight"]

\* the catch of one retry: results[index] = [error, null]
CatchRetry(i, r) ==
  [i EXCEPT !.att[1] = WriteResult(@, i.retries[r].index,
                                   RetryError("WRONGTYPE", TRUE, i.retries[r].command, 1)),
            !.retries[r].status = "rejected"]

\* await Promise.all(retryPromises), then "return results"
RetryJoin(i) ==
  IF i.pc = "retry" /\ \A k \in 1..Len(i.retries) : i.retries[k].status # "inflight"
  THEN [i EXCEPT !.pc = "returned", !.out = i.att[1].results]
  ELSE i

\* a catch block that refreshes on any error of the first attempt
CatchAnyError(v, i, n) ==
  IF v = "cache" /\ n = 1
  THEN [i EXCEPT !.pc = "refresh", !.refreshes = @ + 1]
  ELSE [i EXCEPT !.pc = "thrown", !.thrown = i.att[n].error]

\* a catch block that refreshes and executes again after every "slots"
\* failure, of whichever attempt
CatchEveryAttempt(v, i, n) ==
  IF v = "cache" /\ IncludesSlots(i.att[n].error.message)
  THEN [i EXCEPT !.pc = "refresh", !.refreshes = @ + 1]
  ELSE [i EXCEPT !.pc = "thrown", !.thrown = i.att[n].error]

\* a catch block that never refreshes
CatchNothing(v, i, n) == [i EXCEPT !.pc = "thrown", !.thrown = i.att[n].error]

\* the catch block of clusterPipeline (cache variant): refresh once on a
\* "slots" error of the first attempt, throw anything else
Catch(v, i, n) ==
  LET error == i.att[n].error
  IN IF v = "cache" /\ n = 1 /\ IncludesSlots(error.message)
     THEN [i EXCEPT !.pc = "refresh", !.refreshes = @ + 1]
     ELSE [i EXCEPT !.pc = "thrown", !.thrown = error]

\* a join that hands the redirects found so far to the retry stage while
\* other batches are still awaited
SettleStreaming(v, i, n) ==
  CASE i.att[n].join = "pending" ->
         IF v = "redirect" /\ i.att[n].redirectedCommands # <<>>
         THEN retryRedirectedCommands(i)
         ELSE [i EXCEPT !.pc = "exec"]
    [] i.att[n].join = "rejected" -> Catch(v, i, n)
    [] i.att[n].join = "resolved" ->
         IF v = "cache"
         THEN [i EXCEPT !.pc = "returned", !.out = i.att[n].results]
         ELSE retryRedirectedCommands(i)

\* a join that returns the array of the first attempt whichever attempt ended
SettleFirstArray(v, i, n) ==
  CASE i.att[n].join = "pending" -> [i EXCEPT !.pc = "exec"]
    [] i.att[n].join = "rejected" -> Catch(v, i, n)
    [] i.att[n].join = "resolved" ->
         IF v = "cache"
         THEN [i EXCEPT !.pc = "returned", !.out = i.att[1].results]
         ELSE retryRedirectedCommands(i)

\* what the invocation does once Promise.all over attempt n's tasks settles
Settle(v, i, n) ==
  CASE i.att[n].join = "pending" -> [i EXCEPT !.pc = "exec"]
    [] i.att[n].join = "rejected" -> Catch(v, i, n)
    [] i.att[n].join = "resolved" ->
         IF v = "cache"
         THEN [i EXCEPT !.pc = "returned", !.out = i.att[n].results]
         ELSE retryRedirectedCommands(i)

\* a call of executePipelineForCluster as attempt n of invocation i
Attempt(v, i, ranges, table, cmds, n) ==
  Settle(v, [i EXCEPT !.attempt = n,
                      !.att[n] = executePipelineForCluster(v, ranges, table, cmds, n)], n)

(***************************************************************************)
(* The client as constructed, and its steps.                               *)
(***************************************************************************)
\* no second call
NoCall == [commands |-> <<>>, inv |-> Idle]

\* The cache a call may find: empty as constructed, or what an earlier
\* invocation's refresh left, which the store may have outdated since.
Caches(v) ==
  IF v = "cache" THEN {<<>>} \cup {ParseShards(t) : t \in Topologies} ELSE {<<>>}

Init ==
  /\ variant \in {"cache", "redirect"}
  /\ IF variant = "cache"
     THEN shards \in Topologies /\ slots = <<>>
     ELSE shards = <<>> /\ slots \in SlotTables
  /\ nodeSlotRanges \in Caches(variant)
  /\ commands = <<>>
  /\ inv = Idle
  /\ other = NoCall
  /\ refreshLog = <<>>

\* clusterPipeline(cmds), up to its first await
ClusterPipeline(cmds) ==
  /\ inv.pc = "idle"
  /\ commands' = cmds
  /\ inv' = Attempt(variant, Idle, nodeSlotRanges, slots, cmds, 1)
  /\ UNCHANGED <<variant, shards, slots, nodeSlotRanges, other, refreshLog>>

\* pipeline.exec() of task t of attempt n resolves with one raw result per
\* command, in order; kinds[k] is the kind of reply to the k-th command
BatchResolve(n, t, kinds) ==
  /\ n \in 1..2 /\ t \in 1..Len(inv.att[n].tasks)
  /\ inv.att[n].tasks[t].status = "inflight"
  /\ DOMAIN kinds = 1..Len(inv.att[n].tasks[t].commands)
  /\ LET task == inv.att[n].tasks[t]
         nodeResult == [k \in 1..Len(task.commands) |->
                          RawResult(kinds[k], task.commands[k], n)]
         stored == ForEachResult(variant, inv.att[n], task, nodeResult, 0)
         tasks == [stored.tasks EXCEPT ![t].status = "resolved"]
         all == \A k \in 1..Len(tasks) : tasks[k].status = "resolved"
         a == [stored EXCEPT !.tasks = tasks,
                             !.join = IF @ = "pending" /\ all THEN "resolved" ELSE @]
     IN inv' = IF inv.att[n].join = "pending"
               THEN Settle(variant, [inv EXCEPT !.att[n] = a], n)
               ELSE [inv EXCEPT !.att[n] = a]
  /\ UNCHANGED <<variant, shards, slots, nodeSlotRanges, commands, other, refreshLog>>

\* pipeline.exec() of task t of attempt n rejects
BatchReject(n, t, message) ==
  /\ n \in 1..2 /\ t \in 1..Len(inv.att[n].tasks)
  /\ inv.att[n].tasks[t].status = "inflight"
  /\ LET first == inv.att[n].join = "pending"
         a == [inv.att[n] EXCEPT
                 !.tasks[t].status = "rejected",
                 !.join = IF first THEN "rejected" ELSE @,
                 !.error = IF first THEN Err("Error", message, "batch", n) ELSE @]
     IN inv' = IF first
               THEN Settle(variant, [inv EXCEPT !.att[n] = a], n)
               ELSE [inv EXCEPT !.att[n] = a]
  /\ UNCHANGED <<variant, shards, slots, nodeSlotRanges, commands, other, refreshLog>>

\* this.cluster('SHARDS') answers: the cache is replaced and the command
\* list is executed again
RefreshResolve ==
  /\ inv.pc = "refresh"
  /\ nodeSlotRanges' = updateRedisClusterSlots(nodeSlotRanges, shards)
  /\ refreshLog' = Append(refreshLog, [shards |-> shards, ranges |-> nodeSlotRanges'])
  /\ inv' = Attempt(variant, inv, nodeSlotRanges', slots, commands, 2)
  /\ UNCHANGED <<variant, shards, slots, commands, other>>

\* this.cluster('SHARDS') fails: the error leaves clusterPipeline
RefreshReject ==
  /\ inv.pc = "refresh"
  /\ inv' = [inv EXCEPT !.pc = "thrown",
                        !.thrown = Err("ReplyError", ShardsMessage, "refresh", 1)]
  /\ UNCHANGED <<variant, shards, slots, nodeSlotRanges, commands, other, refreshLog>>

\* the single call of retry r ends: with a value (line 53), or with an
\* error that the catch of the retry stores (line 58)
RetryDone(r, ok) ==
  /\ inv.pc = "retry"
  /\ r \in 1..Len(inv.retries)
  /\ inv.retries[r].status = "inflight"
  /\ inv' = RetryJoin(IF ok THEN RetryResolved(inv, r) ELSE CatchRetry(inv, r))
  /\ UNCHANGED <<variant, shards, slots, nodeSlotRanges, commands, other, refreshLog>>

Next ==
  \/ \E cmds \in CommandLists : ClusterPipeline(cmds)
  \/ \E n \in 1..2, t \in 1..MaxCmds, size \in 1..MaxCmds :
       \E kinds \in [1..size -> ReplyKinds(variant)] : BatchResolve(n, t, kinds)
  \/ \E n \in 1..2, t \in 1..MaxCmds, message \in BatchFailures : BatchReject(n, t, message)
  \/ RefreshResolve
  \/ RefreshReject
  \/ \E r \in 1..MaxCmds, ok \in BOOLEAN : RetryDone(r, ok)

Spec == Init /\ [][Next]_vars

(***************************************************************************)
(* The routing of the cache variant on its own: the client is given a      *)
(* command list of SlotInputs and groups it (executePipelineForCluster up  *)
(* to its await) under the cache it has.                                   *)
(***************************************************************************)
SlotInit ==
  /\ variant = "cache"
  /\ shards \in Topologies
  /\ slots = <<>>
  /\ nodeSlotRanges \in {<<>>, ParseShards(shards)}
  /\ commands \in SlotInputs
  /\ inv = Idle
  /\ other = NoCall
  /\ refreshLog = <<>>

RouteCommands == ClusterPipeline(commands)

SlotNext == RouteCommands

SlotSpec == SlotInit /\ [][SlotNext]_vars

(***************************************************************************)
(* Two calls on one client, interleaved, while the store may reshard.  The *)
(* client is as constructed: its cache is empty.  One of the two calls is  *)
(* the one whose continuation runs (commands, inv); the other waits in     *)
(* "other", and the event loop may turn to it between any two steps.  The  *)
(* two calls are given different commands, so that a result tells which    *)
(* call it belongs to.                                                     *)
(***************************************************************************)
ClientLists ==
  { <<>>,
    << Cmd("get", << <<97>> >>), Cmd("pipeonly", << <<99>> >>) >>,
    << Cmd("set", << <<99>>, <<118>> >>), Cmd("get", << <<123, 97, 125, 99>> >>) >> }

ClientInit ==
  /\ variant \in {"cache", "redirect"}
  /\ IF variant = "cache"
     THEN shards \in Topologies /\ slots = <<>>
     ELSE shards = <<>> /\ slots \in SlotTables
  /\ nodeSlotRanges = <<>>
  /\ commands = <<>>
  /\ inv = Idle
  /\ other = NoCall
  /\ refreshLog = <<>>

ClientCall(cmds) ==
  /\ \A k \in 1..Len(cmds) : \A j \in 1..Len(other.commands) : cmds[k] # other.commands[j]
  /\ ClusterPipeline(cmds)

\* the event loop runs a continuation of the other call next
Turn ==
  /\ commands' = other.commands
  /\ inv' = other.inv
  /\ other' = [commands |-> commands, inv |-> inv]
  /\ UNCHANGED <<variant, shards, slots, nodeSlotRanges, refreshLog>>

\* the store reshards: CLUSTER SHARDS answers differently from now on
TopologyChange ==
  /\ variant = "cache"
  /\ shards' \in Topologies \ {shards}
  /\ UNCHANGED <<variant, slots, nodeSlotRanges, commands, inv, other, refreshLog>>

ClientNext ==
  \/ \E cmds \in ClientLists : ClientCall(cmds)
  \/ \E n \in 1..2, t \in 1..MaxCmds, size \in 1..MaxCmds :
       \E kinds \in [1..size -> ReplyKinds(variant)] : BatchResolve(n, t, kinds)
  \/ \E n \in 1..2, t \in 1..MaxCmds, message \in BatchFailures : BatchReject(n, t, message)
  \/ RefreshResolve
  \/ RefreshReject
  \/ \E r \in 1..MaxCmds, ok \in BOOLEAN : RetryDone(r, ok)
  \/ Turn
  \/ TopologyChange

ClientSpec == ClientInit /\ [][ClientNext]_vars

(***************************************************************************)
(* One call whose awaited collaborator calls all end: the specification    *)
(* for termination.                                                        *)
(***************************************************************************)
\* a collaborator call that is pending ends: pipeline.exec() of a batch, the
\* CLUSTER SHARDS query, the single call of a retry
CollaboratorAnswers ==
  \/ \E n \in 1..2, t \in 1..MaxCmds, size \in 1..MaxCmds :
       \E kinds \in [1..size -> ReplyKinds(variant)] : BatchResolve(n, t, kinds)
  \/ \E n \in 1..2, t \in 1..MaxCmds, message \in BatchFailures : BatchReject(n, t, message)
  \/ RefreshResolve
  \/ RefreshReject
  \/ \E r \in 1..MaxCmds, ok \in BOOLEAN : RetryDone(r, ok)

LiveCall == \E cmds \in ClientLists : ClusterPipeline(cmds)

LiveNext == LiveCall \/ CollaboratorAnswers

\* no awaited call stays pending for ever
LiveSpec == Init /\ [][LiveNext]_vars /\ WF_vars(CollaboratorAnswers)

(***************************************************************************)
(* Properties.                                                             *)
(***************************************************************************)
N == Len(commands)
Current == inv.att[inv.attempt]
Stale(error) == IncludesSlots(error.message)

\* C1: a clusterPipeline call that returns yields an array as long as the
\* input whose entry i is an outcome of input command i, whatever the
\* grouping and the order in which batches and retries complete.
C1_OrderPreserved ==
  inv.pc = "returned" =>
    /\ Len(inv.out) = N
    /\ \A i \in 1..N :
         /\ inv.out[i].src \in {"batch", "retry"}
         /\ inv.out[i].cmd = commands[i]

\* two different commands, sent to two nodes, and the call has returned
C1_Witness ==
  /\ inv.pc = "returned"
  /\ N = 2
  /\ commands[1] # commands[2]
  /\ Len(Current.tasks) = 2

\* C2: in the redirect variant a command whose raw batch result is
\* classified as a redirect does not have that payload in the returned
\* array: the entry at its index is the outcome of its own retry.
C2_RedirectReplaced ==
  (variant = "redirect" /\ inv.pc = "returned") =>
    \A i \in 1..N :
      isRedirectionResponse(inv.att[1].raw[i]) =>
        /\ inv.out[i] # inv.att[1].raw[i]
        /\ inv.out[i].src = "retry"
        /\ inv.out[i].cmd = commands[i]

\* returned with a MOVED reply retried and another command answered directly
C2_Witness ==
  /\ variant = "redirect"
  /\ inv.pc = "returned"
  /\ \E i, j \in 1..N :
       /\ inv.att[1].raw[i].e.kind = "MOVED"
       /\ inv.out[i].src = "retry"
       /\ inv.att[1].raw[j].e.kind = "null"
       /\ inv.out[j].src = "batch"

\* C3: a first attempt that fails with a "slots" error is followed by one
\* refresh of the cache and a second execution of the whole command list
\* against the refreshed cache; the error is not thrown to the caller and
\* no invocation refreshes twice.
C3_StaleFailureRefreshes ==
  /\ inv.refreshes <= 1
  /\ (inv.att[1].join = "rejected" /\ Stale(inv.att[1].error)) =>
       /\ inv.refreshes = 1
       /\ \/ inv.pc = "refresh"
          \/ inv.attempt = 2
          \/ inv.pc = "thrown" /\ inv.thrown.origin = "refresh"
  /\ inv.attempt = 2 =>
       /\ inv.att[1].join = "rejected" /\ Stale(inv.att[1].error)
       /\ nodeSlotRanges = ParseShards(shards)
       /\ inv.att[2] = [executePipelineForCluster(variant, nodeSlotRanges, slots, commands, 2)
                          EXCEPT !.tasks = inv.att[2].tasks,
                                 !.results = inv.att[2].results,
                                 !.raw = inv.att[2].raw,
                                 !.writes = inv.att[2].writes,
                                 !.join = inv.att[2].join,
                                 !.error = inv.att[2].error,
                                 !.redirectedCommands = inv.att[2].redirectedCommands]
       /\ \A i \in 0..(N - 1) :
            \E k \in 1..Len(inv.att[2].tasks) :
              \E j \in 1..Len(inv.att[2].tasks[k].originalIndices) :
                inv.att[2].tasks[k].originalIndices[j] = i

\* the same, of the cache variant alone
C3_CacheVariant == variant = "cache" => C3_StaleFailureRefreshes

C5_OnlyInitialNonStale ==
  (variant = "cache" /\ inv.pc = "thrown") =>
    /\ inv.thrown.attempt = 1
    /\ inv.thrown.origin = "batch"
    /\ ~Stale(inv.thrown)

\* C5 as amended: an error the cache variant throws is a failure of the
\* initial attempt that does not include "slots", or the failure of the
\* refresh, or any failure of the second attempt ("slots" errors included);
\* a "slots" failure of the initial attempt is never thrown.
C5_ThrownErrors ==
  (variant = "cache" /\ inv.pc = "thrown") =>
    /\ \/ /\ inv.thrown.origin = "batch" /\ inv.thrown.attempt = 1
          /\ ~Stale(inv.thrown)
          /\ inv.refreshes = 0 /\ inv.attempt = 1
       \/ /\ inv.thrown.origin = "refresh"
          /\ inv.refreshes = 1 /\ inv.attempt = 1
       \/ /\ inv.thrown.origin = "batch" /\ inv.thrown.attempt = 2
          /\ inv.refreshes = 1 /\ inv.attempt = 2
    /\ inv.att[1].join = "rejected"
    /\ inv.thrown.attempt = 1 /\ inv.thrown.origin = "batch" => inv.thrown = inv.att[1].error
    /\ inv.thrown.attempt = 2 => inv.thrown = inv.att[2].error

\* the second attempt fails with a "slots" error, which is thrown
C5_Witness ==
  /\ variant = "cache"
  /\ inv.pc = "thrown"
  /\ inv.thrown.attempt = 2
  /\ Stale(inv.thrown)

\* the places (task, position) at which input index i is recorded
Occurrences(a, i) ==
  {kj \in (1..Len(a.tasks)) \X (1..N) :
     /\ kj[2] <= Len(a.tasks[kj[1]].originalIndices)
     /\ a.tasks[kj[1]].originalIndices[kj[2]] = i}

\* C6: after the grouping step of an attempt every input index 0..N-1 is
\* recorded in exactly one batch, once; batches record no other index.
C6_GroupedOnce ==
  \A n \in 1..2 :
    inv.att[n].grouped =>
      /\ \A i \in 0..(N - 1) : Cardinality(Occurrences(inv.att[n], i)) = 1
      /\ \A k \in 1..Len(inv.att[n].tasks) :
           /\ Len(inv.att[n].tasks[k].commands) = Len(inv.att[n].tasks[k].originalIndices)
           /\ \A j \in 1..Len(inv.att[n].tasks[k].originalIndices) :
                inv.att[n].tasks[k].originalIndices[j] \in 0..(N - 1)

\* a first grouping into a real node and the bucket of the unknown owner,
\* and a second grouping of the same two commands into one node
C6_Witness ==
  /\ N = 2 /\ inv.attempt = 2
  /\ Len(inv.att[1].tasks) = 2
  /\ \E k \in 1..2 : inv.att[1].tasks[k].node = "null"
  /\ Len(inv.att[2].tasks) = 1
  /\ inv.att[2].tasks[1].node = "n1"
  /\ inv.att[2].tasks[1].originalIndices = <<0, 1>>

\* whether the client knows no owner for the slot of the command
UnknownOwner(command) ==
  IF variant = "cache"
  THEN findNodeForSlot(nodeSlotRanges, Memo(KeyOf(command))[2]).isNull
  ELSE /\ ~Memo(KeyOf(command))[3].threw
       /\ ~SlotsAt(slots, Memo(KeyOf(command))[3].slot).defined

\* C7: a command whose slot has no known owner is put in a bucket and is
\* submitted with it: the attempt is grouped and one of its batches holds
\* the command; routing does not throw.
C7_UnknownOwnerSubmitted ==
  inv.attempt >= 1 =>
    \A i \in 1..N :
      UnknownOwner(commands[i]) =>
        /\ Current.grouped
        /\ Occurrences(Current, i - 1) # {}
        /\ inv.thrown.origin # "group"

\* the same, of the cache variant alone
C7_CacheVariant == variant = "cache" => C7_UnknownOwnerSubmitted

\* C8: a raw result that is an error reply unrelated to routing (WRONGTYPE)
\* is stored as it is at the command's index, and the command is not put
\* on the redirect list nor retried.
C8_AppErrorPassedThrough ==
  variant = "redirect" =>
    \A i \in 1..Len(inv.att[1].raw) :
      inv.att[1].raw[i].e.kind = "WRONGTYPE" =>
        /\ inv.att[1].results[i] = inv.att[1].raw[i]
        /\ \A k \in 1..Len(inv.att[1].redirectedCommands) :
             inv.att[1].redirectedCommands[k].index # i - 1
        /\ \A r \in 1..Len(inv.retries) : inv.retries[r].index # i - 1

\* C8 for the error replies that carry no "command" property
C8_BareErrorPassedThrough ==
  variant = "redirect" =>
    \A i \in 1..Len(inv.att[1].raw) :
      (inv.att[1].raw[i].e.kind = "WRONGTYPE" /\ ~inv.att[1].raw[i].e.command) =>
        /\ inv.att[1].results[i] = inv.att[1].raw[i]
        /\ \A k \in 1..Len(inv.att[1].redirectedCommands) :
             inv.att[1].redirectedCommands[k].index # i - 1

\* C9: a retry that fails, or whose name is no function of the client, is
\* stored as the (error, null) entry of its command; the retry stage throws
\* nothing, so once retries exist the call is awaiting them or has returned
\* the whole array, with every settled retry's outcome at its index.
C9_RetryFailureCaptured ==
  variant = "redirect" =>
    /\ inv.thrown.origin # "retry"
    /\ inv.retries # <<>> => inv.pc \in {"retry", "returned"}
    /\ \A r \in 1..Len(inv.retries) :
         LET rc == inv.retries[r]
             entry == inv.att[1].results[rc.index + 1]
         IN /\ rc.status = "rejected" =>
                 entry = RetryError("WRONGTYPE", TRUE, rc.command, 1)
            /\ rc.status = "invalid" =>
                 entry = RetryError("Invalid command", FALSE, rc.command, 1)
            /\ rc.status = "resolved" => entry = RetryValue(rc.command, 1)
    /\ inv.pc = "returned" => (Len(inv.out) = N /\ inv.out = inv.att[1].results)

\* returned after one retry failed and another gave a value
C9_Witness ==
  /\ variant = "redirect"
  /\ inv.pc = "returned"
  /\ \E r, q \in 1..Len(inv.retries) :
       /\ inv.retries[r].status = "rejected"
       /\ inv.out[inv.retries[r].index + 1].e.kind = "WRONGTYPE"
       /\ inv.retries[q].status = "resolved"
       /\ inv.out[inv.retries[q].index + 1].e.kind = "null"

\* returned after a retry of a name that is no function of the client
C9_InvalidReached ==
  /\ variant = "redirect"
  /\ inv.pc = "returned"
  /\ \E r \in 1..Len(inv.retries) : inv.retries[r].status = "invalid"

\* C10: within one attempt no result index is assigned twice; when the call
\* returns every index has been assigned once, by the retry when its raw
\* result was classified as a redirect and by the executor otherwise.
C10_WrittenOnce ==
  /\ \A n \in 1..2 : \A i \in 1..Len(inv.att[n].writes) : inv.att[n].writes[i] <= 1
  /\ inv.pc = "returned" =>
       /\ Len(Current.writes) = N
       /\ \A i \in 1..N :
            /\ Current.writes[i] = 1
            /\ inv.out[i].src = "retry" <=>
                 (variant = "redirect" /\ isRedirectionResponse(Current.raw[i]))
            /\ inv.out[i].src = "batch" <=>
                 ~(variant = "redirect" /\ isRedirectionResponse(Current.raw[i]))

\* returned with one index assigned by a retry and another by the executor
C10_Witness ==
  /\ inv.pc = "returned"
  /\ N = 2
  /\ \E i, j \in 1..N :
       /\ inv.out[i].src = "retry" /\ Current.writes[i] = 1
       /\ inv.out[j].src = "batch" /\ Current.writes[j] = 1

(***************************************************************************)
(* The slot function of the cache variant (SlotSpec).                      *)
(***************************************************************************)
\* the lengths t of a non-empty tag such that both keys start with "{tag}"
SharedTags(k1, k2) ==
  {t \in 1..(Len(k1) - 2) :
     /\ k1[1] = LBrace
     /\ k1[t + 2] = RBrace
     /\ Len(k2) >= t + 2
     /\ SubSeq(k2, 1, t + 2) = SubSeq(k1, 1, t + 2)}

\* the batches of the first attempt that hold input index i
BatchesOf(i) ==
  {k \in 1..Len(inv.att[1].tasks) :
     \E j \in 1..Len(inv.att[1].tasks[k].originalIndices) :
       inv.att[1].tasks[k].originalIndices[j] = i}

Colocated(i, j) ==
  /\ calculateSlot(KeyOf(commands[i])) = calculateSlot(KeyOf(commands[j]))
  /\ inv.att[1].grouped
  /\ BatchesOf(i - 1) # {}
  /\ BatchesOf(i - 1) = BatchesOf(j - 1)

\* C11: two commands whose keys are "{tag}x" and "{tag}y", for any
\* non-empty tag and any suffixes x and y, have the same slot and are put
\* in the same node batch, whatever the cache holds.
C11_TagColocated ==
  (/\ inv.attempt = 1
   /\ N = 2
   /\ ~KeyOf(commands[1]).isNull
   /\ ~KeyOf(commands[2]).isNull
   /\ SharedTags(commands[1].args[1], commands[2].args[1]) # {})
    => Colocated(1, 2)

\* C11 for the tags without a line terminator
C11_PlainTagColocated ==
  (/\ inv.attempt = 1
   /\ N = 2
   /\ ~KeyOf(commands[1]).isNull
   /\ ~KeyOf(commands[2]).isNull
   /\ \E t \in SharedTags(commands[1].args[1], commands[2].args[1]) :
        \A k \in 2..(t + 1) : commands[1].args[1][k] \notin LineTerminators)
    => Colocated(1, 2)

\* two different keys with a tag of two bytes, in one batch of a real node
C11_PlainTagWitness ==
  /\ inv.attempt = 1 /\ N = 2
  /\ commands[1].args[1] = <<LBrace, RBrace, 97, RBrace>>
  /\ commands[2].args[1] = <<LBrace, RBrace, 97, RBrace, 97>>
  /\ Len(inv.att[1].tasks) = 1
  /\ inv.att[1].tasks[1].node # "null"

\* C12: the slot of every key is in 0..16383; an absent key and a key that
\* is empty after trimming have slot 0, grouping does not throw, and the
\* command is in the batch of the owner of slot 0.
C12_SlotInRange ==
  inv.attempt = 1 =>
    \A i \in 1..N :
      LET key == KeyOf(commands[i])
          slot == Memo(key)[2]
      IN /\ slot \in 0..(SlotSpace - 1)
         /\ (key.isNull \/ Trimmed(key.str) = <<>>) =>
              /\ slot = 0
              /\ inv.att[1].grouped
              /\ inv.thrown.origin # "group"
              /\ BatchesOf(i - 1) # {}
              /\ \A k \in BatchesOf(i - 1) :
                   inv.att[1].tasks[k].node =
                     PropertyKey(findNodeForSlot(nodeSlotRanges, 0))

\* a key of white space alone, routed to the node that owns slot 0
C12_Witness ==
  /\ inv.attempt = 1 /\ N = 1
  /\ commands[1].args = << <<32, 10>> >>
  /\ inv.att[1].tasks[1].node = "n1"

\* an absent key, routed to the node that owns slot 0
C12_AbsentKeyReached ==
  /\ inv.attempt = 1 /\ N = 1
  /\ commands[1].args = <<>>
  /\ inv.att[1].tasks[1].node = "n1"

(***************************************************************************)
(* The join of the node batches and the retry stage (Spec).                *)
(***************************************************************************)
InFlight(a) == {k \in 1..Len(a.tasks) : a.tasks[k].status = "inflight"}

\* C14: in the redirect variant no retry exists, and no result entry comes
\* from a retry, before every node batch of the attempt has resolved.
C14_RetryAfterBarrier ==
  variant = "redirect" =>
    /\ (inv.retries # <<>> \/ inv.pc = "retry") =>
         /\ inv.att[1].join = "resolved"
         /\ InFlight(inv.att[1]) = {}
         /\ \A k \in 1..Len(inv.att[1].tasks) : inv.att[1].tasks[k].status = "resolved"
    /\ InFlight(inv.att[1]) # {} =>
         \A i \in 1..Len(inv.att[1].results) : inv.att[1].results[i].src # "retry"

\* retries awaited after two node batches, each of which delivered a redirect
C14_Witness ==
  /\ variant = "redirect"
  /\ inv.pc = "retry"
  /\ Len(inv.att[1].tasks) = 2
  /\ Len(inv.retries) = 2
  /\ inv.retries[1].status = "inflight"

\* C15, first half: a batch that completes delivers its results to the
\* array of its attempt whatever became of its siblings.
C15_SiblingsUnaffected ==
  variant = "cache" =>
    \A n \in 1..2 : \A k \in 1..Len(inv.att[n].tasks) :
      inv.att[n].tasks[k].status = "resolved" =>
        \A j \in 1..Len(inv.att[n].tasks[k].originalIndices) :
          LET index == inv.att[n].tasks[k].originalIndices[j]
          IN /\ inv.att[n].raw[index + 1].src = "batch"
             /\ index < Len(inv.att[n].results)
             /\ inv.att[n].results[index + 1] = inv.att[n].raw[index + 1]

\* C15: a batch whose exec() fails leaves its siblings alone, and
\* clusterPipeline does not throw, refresh or execute again while a batch
\* of the failed attempt is still in flight.
C15_WaitForAll ==
  variant = "cache" =>
    /\ C15_SiblingsUnaffected
    /\ \A n \in 1..2 :
         (/\ inv.att[n].join = "rejected"
          /\ inv.att[n].error.message \in BatchFailures
          /\ inv.pc \in {"thrown", "refresh"} \/ inv.attempt > n)
           => InFlight(inv.att[n]) = {}

\* C18: in every batch of an attempt the recorded indices are strictly
\* increasing and the j-th command is the input command at the j-th index.
C18_BatchOrder ==
  \A n \in 1..2 :
    inv.att[n].grouped =>
      \A k \in 1..Len(inv.att[n].tasks) :
        LET b == inv.att[n].tasks[k]
        IN /\ Len(b.commands) = Len(b.originalIndices)
           /\ \A j \in 1..Len(b.originalIndices) :
                /\ b.originalIndices[j] \in 0..(N - 1)
                /\ b.commands[j] = commands[b.originalIndices[j] + 1]
           /\ \A j1, j2 \in 1..Len(b.originalIndices) :
                j1 < j2 => b.originalIndices[j1] < b.originalIndices[j2]

\* a batch of two different commands, in input order
C18_Witness ==
  /\ N = 2
  /\ commands[1] # commands[2]
  /\ inv.att[1].grouped
  /\ Len(inv.att[1].tasks) = 1
  /\ inv.att[1].tasks[1].originalIndices = <<0, 1>>
  /\ inv.att[1].tasks[1].commands = commands

\* C19: in the redirect variant, as long as no raw result has been
\* classified as a redirect, nothing is queued for a retry, no single call
\* exists and no entry comes from a retry; the call returns without them.
C19_NoRedirectNoRetry ==
  (/\ variant = "redirect"
   /\ \A i \in 1..Len(inv.att[1].raw) : ~isRedirectionResponse(inv.att[1].raw[i]))
    => /\ inv.att[1].redirectedCommands = <<>>
       /\ inv.retries = <<>>
       /\ inv.pc # "retry"
       /\ \A i \in 1..Len(inv.att[1].results) : inv.att[1].results[i].src # "retry"

\* returned from two batches, one of which answered with an error that is
\* no redirect, without a single call
C19_Witness ==
  /\ variant = "redirect"
  /\ inv.pc = "returned"
  /\ N = 2
  /\ Len(inv.att[1].tasks) = 2
  /\ \E i \in 1..N : inv.att[1].raw[i].e.kind = "WRONGTYPE"
  /\ \A i \in 1..N : ~isRedirectionResponse(inv.att[1].raw[i])
  /\ inv.retries = <<>>

\* the retries of input index i
RetriesOf(i) == {r \in 1..Len(inv.retries) : inv.retries[r].index = i}

\* C20: once the retry stage has begun, every command whose raw result was
\* classified as a redirect has exactly one retry and no other command has
\* any; all of them exist at once, those with a name of the client as
\* single calls; a retry that has ended has written its entry once, the
\* entry is its own outcome and it is not in flight again.
C20_RetriedOnce ==
  (variant = "redirect" /\ inv.pc \in {"retry", "returned"}) =>
    /\ Len(inv.retries) = Len(inv.att[1].redirectedCommands)
    /\ \A i \in 1..N :
         /\ Cardinality(RetriesOf(i - 1)) =
              (IF isRedirectionResponse(inv.att[1].raw[i]) THEN 1 ELSE 0)
         /\ \A r \in RetriesOf(i - 1) :
              LET rc == inv.retries[r]
              IN /\ rc.command = commands[i]
                 /\ rc.command.name \in ClientFunctions <=> rc.status # "invalid"
                 /\ inv.att[1].writes[i] = (IF rc.status = "inflight" THEN 0 ELSE 1)
                 /\ rc.status # "inflight" =>
                      /\ inv.att[1].results[i].src = "retry"
                      /\ inv.att[1].results[i].cmd = commands[i]
    /\ inv.pc = "returned" => \A r \in 1..Len(inv.retries) : inv.retries[r].status # "inflight"

\* two single calls at once: one has failed with an error that carries a
\* command, the other is still in flight
C20_Witness ==
  /\ variant = "redirect"
  /\ inv.pc = "retry"
  /\ Len(inv.retries) = 2
  /\ inv.retries[1].status = "rejected"
  /\ isRedirectionResponse(inv.att[1].results[inv.retries[1].index + 1])
  /\ inv.retries[2].status = "inflight"

(***************************************************************************)
(* The cache and two interleaved calls (ClientSpec).                       *)
(***************************************************************************)
\* every slot at which an owner can change: the ends of every range of
\* every topology and their neighbours
ProbeSlots ==
  {0, SlotSpace - 1} \cup
  (UNION {UNION {{r[k].startSlot - 1, r[k].startSlot, r[k].endSlot, r[k].endSlot + 1} :
                    k \in 1..Len(r)} :
            r \in {ParseShards(t) : t \in Topologies}}
     \cap 0..(SlotSpace - 1))

\* C13: when two successive refreshes got the same answer from the store,
\* the second leaves the table as the first left it, findNodeForSlot gives
\* the same owner for every slot, and that table is the cache until the
\* next refresh.
C13_RefreshIdempotent ==
  \A k \in 1..(Len(refreshLog) - 1) :
    refreshLog[k + 1].shards = refreshLog[k].shards =>
      /\ refreshLog[k + 1].ranges = refreshLog[k].ranges
      /\ \A slot \in ProbeSlots :
           findNodeForSlot(refreshLog[k + 1].ranges, slot) =
             findNodeForSlot(refreshLog[k].ranges, slot)
      /\ k + 1 = Len(refreshLog) => nodeSlotRanges = refreshLog[k + 1].ranges

\* two refreshes, one by each call, with the same answer of two shards
C13_Witness ==
  /\ Len(refreshLog) = 2
  /\ refreshLog[1].shards = refreshLog[2].shards
  /\ Len(refreshLog[2].shards) = 2
  /\ findNodeForSlot(nodeSlotRanges, 5461) = Node("n2")
  /\ inv.refreshes = 1 /\ other.inv.refreshes = 1

\* the batches of an attempt as the grouping step left them
Batches(a) ==
  [k \in 1..Len(a.tasks) |->
     Batch(a.tasks[k].node, a.tasks[k].commands, a.tasks[k].originalIndices)]

\* the tables the cache has held so far
Snapshots == {<<>>} \cup {ParseShards(refreshLog[k].shards) : k \in 1..Len(refreshLog)}

GroupedUnderOne(cmds, i) ==
  \A n \in 1..2 :
    i.att[n].grouped =>
      \E snapshot \in Snapshots :
        Batches(i.att[n]) = GroupCommands("cache", snapshot, slots, cmds).pipelinesByNode

\* C16: the cache is the empty table until the first refresh and the whole
\* parsed answer of the latest shard query afterwards, and the batches of
\* every attempt of either call are the grouping of its commands under one
\* of the tables the cache has held.
C16_AtomicSnapshot ==
  variant = "cache" =>
    /\ IF refreshLog = <<>> THEN nodeSlotRanges = <<>>
       ELSE nodeSlotRanges = ParseShards(refreshLog[Len(refreshLog)].shards)
    /\ GroupedUnderOne(commands, inv)
    /\ GroupedUnderOne(other.commands, other.inv)

\* two refreshes with different answers: the second call grouped its first
\* attempt under the table of the first refresh and its second attempt
\* under the table of the second
C16_Witness ==
  /\ variant = "cache"
  /\ Len(refreshLog) = 2
  /\ refreshLog[1].shards # refreshLog[2].shards
  /\ inv.attempt = 2
  /\ Batches(inv.att[1]) =
       GroupCommands("cache", ParseShards(refreshLog[1].shards), slots, commands).pipelinesByNode
  /\ Batches(inv.att[1]) # Batches(inv.att[2])

\* everything call i holds belongs to its own command list cmds
OwnState(cmds, i) ==
  /\ \A n \in 1..2 :
       /\ \A k \in 1..Len(i.att[n].results) :
            i.att[n].results[k].src # "hole" =>
              (k <= Len(cmds) /\ i.att[n].results[k].cmd = cmds[k])
       /\ \A k \in 1..Len(i.att[n].redirectedCommands) :
            /\ i.att[n].redirectedCommands[k].index < Len(cmds)
            /\ i.att[n].redirectedCommands[k].command =
                 cmds[i.att[n].redirectedCommands[k].index + 1]
       /\ \A t \in 1..Len(i.att[n].tasks) :
            \A j \in 1..Len(i.att[n].tasks[t].commands) :
              i.att[n].tasks[t].commands[j] = cmds[i.att[n].tasks[t].originalIndices[j] + 1]
  /\ i.pc = "returned" =>
       /\ Len(i.out) = Len(cmds)
       /\ \A k \in 1..Len(i.out) :
            i.out[k].src \in {"batch", "retry"} /\ i.out[k].cmd = cmds[k]

\* C17: of two calls on one client, each one's batches, result arrays and
\* redirect list hold its own commands only, and the array it returns
\* holds one outcome of each of its own commands, in order.
C17_NoSharedState ==
  /\ OwnState(commands, inv)
  /\ OwnState(other.commands, other.inv)

\* one call has returned while the other, begun before, has one batch
\* answered and one in flight
C17_Witness ==
  /\ inv.pc = "returned"
  /\ Len(inv.out) = 2
  /\ Len(inv.att[1].tasks) = 2
  /\ other.inv.pc = "exec"
  /\ Len(other.inv.att[1].tasks) = 2
  /\ \E t \in 1..2 : other.inv.att[1].tasks[t].status = "resolved"

(***************************************************************************)
(* The two attempts of the cache variant (Spec).                           *)
(***************************************************************************)
\* C21: when the cache variant returns after a second attempt, the array
\* it returned is the array of the second attempt as it is now: it holds
\* one raw result of the second attempt for every command and nothing of
\* the first attempt, whatever first-attempt batches completed since.
C21_SecondAttemptOnly ==
  (variant = "cache" /\ inv.pc = "returned" /\ inv.attempt = 2) =>
    /\ inv.out = inv.att[2].results
    /\ Len(inv.out) = N
    /\ \A i \in 1..N :
         /\ inv.out[i].src = "batch"
         /\ inv.out[i].att = 2
         /\ inv.out[i] = inv.att[2].raw[i]
    /\ \A i \in 1..Len(inv.att[1].results) :
         inv.att[1].results[i].src # "hole" => inv.att[1].results[i].att = 1

\* returned after a second attempt while the sibling batch of the failed
\* first attempt has answered with another reply than the one returned
C21_Witness ==
  /\ variant = "cache"
  /\ inv.pc = "returned"
  /\ inv.attempt = 2
  /\ Len(inv.att[1].tasks) = 2
  /\ \E t \in 1..2 : inv.att[1].tasks[t].status = "resolved"
  /\ \E i \in 1..Len(inv.att[1].results) :
       /\ inv.att[1].results[i].e.kind = "MOVED"
       /\ inv.out[i].e.kind = "null"

\* whether attempt a submitted input index i to the store: its batch was
\* executed (every name in it is a function of the pipeline)
Submitted(a, i) ==
  \E k \in 1..Len(a.tasks) :
    /\ \E j \in 1..Len(a.tasks[k].originalIndices) : a.tasks[k].originalIndices[j] = i
    /\ \A j \in 1..Len(a.tasks[k].commands) : a.tasks[k].commands[j].name \in PipelineFunctions

Submissions(i) == Cardinality({n \in 1..2 : Submitted(inv.att[n], i)})

\* C22: in the cache variant every input command is submitted in a batch
\* at most twice, once per attempt; exactly once when the call returns
\* without a failed batch; and twice, whatever became of its first batch,
\* once a second attempt has begun.
C22_SubmittedPerAttempt ==
  (variant = "cache" /\ inv.attempt >= 1) =>
    \A i \in 0..(N - 1) :
      /\ Submissions(i) <= inv.attempt
      /\ \A n \in 1..2 : Cardinality(Occurrences(inv.att[n], i)) <= 1
      /\ (inv.attempt = 1 /\ inv.att[1].join # "rejected") => Submissions(i) = 1
      /\ inv.attempt = 2 =>
           /\ Stale(inv.att[1].error)
           /\ Submissions(i) = 2

\* a second attempt has begun after one batch of the first was answered
\* and its sibling failed with a "slots" error
C22_Witness ==
  /\ variant = "cache"
  /\ inv.attempt = 2
  /\ N = 2
  /\ Len(inv.att[1].tasks) = 2
  /\ \E t, u \in 1..2 :
       /\ inv.att[1].tasks[t].status = "resolved"
       /\ inv.att[1].tasks[u].status = "rejected"
  /\ Submissions(0) = 2 /\ Submissions(1) = 2

(***************************************************************************)
(* The cache before its first refresh (ClientSpec: the cache starts empty). *)
(***************************************************************************)
\* the two calls of the client, each with its argument
BothCalls == << [commands |-> commands, inv |-> inv], other >>

\* attempt a of a call with argument cmds formed one batch, under the
\* unknown-owner key, holding cmds in input order
OneUnknownOwnerBatch(cmds, a) ==
  /\ Len(a.tasks) = 1
  /\ a.tasks[1].node = PropertyKey(NullNode)
  /\ a.tasks[1].commands = cmds
  /\ a.tasks[1].originalIndices = [k \in 1..Len(cmds) |-> k - 1]

\* C23 as stated: before the first refresh every call forms exactly one
\* batch, the unknown-owner bucket, holding its commands in input order
C23_AlwaysOneBatch ==
  (variant = "cache" /\ refreshLog = <<>>) =>
    \A c \in 1..2 : \A n \in 1..2 :
      BothCalls[c].inv.att[n].join # "none" =>
        OneUnknownOwnerBatch(BothCalls[c].commands, BothCalls[c].inv.att[n])

\* C23: the cache is written once per call whose first attempt failed with
\* a "slots" error of a batch and by no other call; while nothing has been
\* refreshed the cache is empty and every call with at least one command
\* forms exactly one batch, the unknown-owner bucket, holding its commands
\* in input order (a call with no command forms no batch).
C23_CacheFrame ==
  variant = "cache" =>
    /\ Len(refreshLog) = Cardinality({c \in 1..2 : BothCalls[c].inv.attempt = 2})
    /\ \A c \in 1..2 :
         LET i == BothCalls[c].inv
         IN (i.refreshes > 0 \/ i.attempt = 2) =>
              /\ i.refreshes = 1
              /\ Stale(i.att[1].error)
              /\ i.att[1].error.origin = "batch"
    /\ refreshLog = <<>> =>
         /\ nodeSlotRanges = <<>>
         /\ \A c \in 1..2 : \A n \in 1..2 :
              BothCalls[c].inv.att[n].join # "none" =>
                IF BothCalls[c].commands = <<>>
                THEN BothCalls[c].inv.att[n].tasks = <<>>
                ELSE OneUnknownOwnerBatch(BothCalls[c].commands, BothCalls[c].inv.att[n])

\* nothing refreshed yet: one call returned its two commands from the one
\* unknown-owner batch, the other threw a failure that is not a "slots" one
C23_Witness ==
  /\ variant = "cache"
  /\ refreshLog = <<>>
  /\ inv.pc = "thrown"
  /\ inv.thrown.message = ClosedMessage
  /\ Len(commands) = 2
  /\ OneUnknownOwnerBatch(commands, inv.att[1])
  /\ other.inv.pc = "returned"
  /\ Len(other.commands) = 2
  /\ OneUnknownOwnerBatch(other.commands, other.inv.att[1])

(***************************************************************************)
(* Termination (LiveSpec: every pending collaborator call ends).           *)
(***************************************************************************)
\* the invocation has left clusterPipeline: with an array or with an error
Finished == inv.pc \in {"returned", "thrown"}

\* the bounds on the work of one invocation
BoundedWork ==
  /\ inv.attempt <= 2
  /\ inv.refreshes <= 1
  /\ Len(refreshLog) <= 1
  /\ inv.att[2].join # "none" => inv.refreshes = 1
  /\ variant = "redirect" => inv.attempt <= 1 /\ inv.refreshes = 0
  /\ variant = "cache" => inv.retries = <<>>
  /\ \A i \in 1..N :
       /\ Cardinality(RetriesOf(i - 1)) <= 1
       /\ \A n \in 1..2 : i <= Len(inv.att[n].writes) => inv.att[n].writes[i] <= 1

\* C24: every invocation that has begun ends, returning an array or
\* throwing, and on the way it makes at most two execution attempts and at
\* most one refresh, issues at most one retry per redirected command and
\* writes every entry of an attempt's array at most once.
C24_Terminates ==
  /\ []BoundedWork
  /\ (inv.pc # "idle") ~> Finished

\* the second attempt of the cache variant failed with a "slots" error
\* after the one refresh, and the invocation ended with that error
C24_Witness ==
  /\ variant = "cache"
  /\ Finished
  /\ inv.refreshes = 1
  /\ inv.attempt = 2
  /\ inv.att[2].join = "rejected"
  /\ IncludesSlots(inv.att[2].error.message)
  /\ \A n \in 1..2 : \A t \in 1..Len(inv.att[n].tasks) : inv.att[n].tasks[t].status # "inflight"

=============================================================================
